---- MODULE Spec2Model ----
(***************************************************************************)
(* A model of collateEmails.js: the paginated fetch of the email events,   *)
(* the per-campaign enrichment and inclusion policy, the per-recipient     *)
(* aggregation of the events and the projection of each recipient into a   *)
(* send record written to its own file.                                    *)
(*                                                                         *)
(* JavaScript values are represented as follows.                           *)
(*   - a string whose characters matter (a recipient address, a file name) *)
(*     is a sequence of one-character strings;                             *)
(*   - an optional value (undefined/null or a value) is the empty sequence *)
(*     or the one-element sequence holding the value;                      *)
(*   - an event id is a string, and the text "null" stands for null;       *)
(*   - an instant is a record [sec, ms] (seconds since the epoch and the   *)
(*     milliseconds within the second), and an invalid Date is NaN.        *)
(***************************************************************************)
EXTENDS Integers, Sequences, FiniteSets, TLC

VARIABLES
    variables,            \* the parsed variables.json (lines 10-12)
    testMode,             \* line 6
    pc,                   \* where compileEmailAnalytics stands
    allEvents,            \* getAllEvents: the accumulated events
    hasMoreEvents,        \* getAllEvents: the loop condition
    nextOffset,           \* getAllEvents: the cursor of the next request
    requests,             \* every GET issued through the axios instance, in order
    responses,            \* what HubSpot answered to each of them, in the same order
    campaignIdentifier,   \* processEmailEvents: its first argument, at its last call
    recipientEventsMap,   \* processEmailEvents: the map under construction
    campaignIdentifiers,  \* compileEmailAnalytics: the distinct campaign ids
    campaignIndex,        \* compileEmailAnalytics: position of the for..of loop
    campaignDetails,      \* compileEmailAnalytics: the campaign being enriched
    contentDetails,       \* compileEmailAnalytics: its content metadata
    results,              \* compileEmailAnalytics: the included analyses
    sendIndex,            \* writeAllEmailSendsToFiles: position of the nested loops
    directories,          \* the directories made by mkdirSync
    writes                \* every writeFileSync call, in order

vars == <<variables, testMode, pc, allEvents, hasMoreEvents, nextOffset, requests, responses,
          campaignIdentifier, recipientEventsMap, campaignIdentifiers, campaignIndex,
          campaignDetails, contentDetails, results, sendIndex, directories, writes>>

----------------------------------------------------------------------------
(* Bounds of the model. *)

\* The largest number of events the events endpoint hands out in one run of the pipeline.
MaxEvents == 2
\* The largest number of events the endpoint hands out in a run of getAllEvents alone,
\* and the largest number of its answers that say hasMore.
MaxFetchEvents == 5
MaxFetchPages == 3
\* The longest event list handed to processEmailEvents alone.
MaxAggEvents == 3
\* The longest recipient address projected alone.
MaxRecipientLen == 5
\* The longest local part of the addresses of two recipients written together.
MaxLocalPartLen == 2

----------------------------------------------------------------------------
(* Program constants. *)

\* testEventLimit (1000 in the source) and batchLimit (100 in the source), scaled
\* down together so that a run can cross the cap within a few pages.
testEventLimit == 3
batchLimit == 2

Absent == <<>>
Some(v) == <<v>>
Truthy(opt) == opt # Absent

NULL == "null"
NaN == [sec |-> -1, ms |-> -1]

\* new Date("2024-01-01T01:01:01.001Z")
watermarkDate == [sec |-> 1704070861, ms |-> 1]

outputDirectory == "./hubspot_analytics"
salesforceSendsDirectory == "./salesforce_sends"

----------------------------------------------------------------------------
(* Strings. *)

UpperCaseLetters == <<"A","B","C","D","E","F","G","H","I","J","K","L","M",
                      "N","O","P","Q","R","S","T","U","V","W","X","Y","Z">>
LowerCaseLetters == <<"a","b","c","d","e","f","g","h","i","j","k","l","m",
                      "n","o","p","q","r","s","t","u","v","w","x","y","z">>
DecimalDigits == <<"0","1","2","3","4","5","6","7","8","9">>

Range(seq) == {seq[i] : i \in DOMAIN seq}

\* String.prototype.toLowerCase, one character at a time.
toLowerCase(str) ==
    [i \in DOMAIN str |->
        IF str[i] \in Range(UpperCaseLetters)
        THEN LowerCaseLetters[CHOOSE k \in DOMAIN UpperCaseLetters : UpperCaseLetters[k] = str[i]]
        ELSE str[i]]

\* String.prototype.includes
includes(str, search) ==
    \E i \in 0..(Len(str) - Len(search)) : SubSeq(str, i + 1, i + Len(search)) = search

\* recipient.replace(/[^a-zA-Z0-9_.-]/g, "_")
safeCharacters ==
    Range(UpperCaseLetters) \cup Range(LowerCaseLetters) \cup Range(DecimalDigits)
        \cup {"_", ".", "-"}
safeRecipientOf(recipient) ==
    [i \in DOMAIN recipient |-> IF recipient[i] \in safeCharacters THEN recipient[i] ELSE "_"]

\* The decimal text of a number >= 0, as a template literal renders it.
RECURSIVE numberToString(_)
numberToString(n) ==
    IF n < 10 THEN <<DecimalDigits[n + 1]>>
    ELSE numberToString(n \div 10) \o <<DecimalDigits[(n % 10) + 1]>>

\* `send_${campaignIdentifier}_${safeRecipient}.json` under salesforceSendsDirectory
sendFileName(campaign, recipient) ==
    [dir  |-> salesforceSendsDirectory,
     name |-> <<"s","e","n","d","_">> \o numberToString(campaign) \o <<"_">>
                \o safeRecipientOf(recipient) \o <<".","j","s","o","n">>]

\* `email_${campaignIdentifier}.json` under outputDirectory
campaignFileName(campaign) ==
    [dir  |-> outputDirectory,
     name |-> <<"e","m","a","i","l","_">> \o numberToString(campaign)
                \o <<".","j","s","o","n">>]

summaryFileName ==
    [dir  |-> outputDirectory,
     name |-> <<"e","m","a","i","l","_","a","n","a","l","y","t","i","c","s","_",
                "s","u","m","m","a","r","y",".","j","s","o","n">>]

----------------------------------------------------------------------------
(* processEmailEvents: the aggregation of one campaign's events.           *)
(* recipientEventsMap, a plain object keyed by the recipient address, is   *)
(* the sequence of its entries in insertion order, which is the order in   *)
(* which for..in visits string keys that are not array indices (an address *)
(* never is one).                                                          *)

sendTypes == {"SENT", "DELIVERED", "PROCESSED"}

\* !recipientData.sendEventId: null and the empty string are falsy.
FalsyId(id) == id = NULL \/ id = ""

hasRecipient(map, recipient) == \E i \in DOMAIN map : map[i].recipient = recipient
indexOfRecipient(map, recipient) == CHOOSE i \in DOMAIN map : map[i].recipient = recipient
dataOf(map, recipient) == map[indexOfRecipient(map, recipient)].data
recipientsOf(map) == [i \in DOMAIN map |-> map[i].recipient]

initialRecipientData ==
    [opens |-> 0, clicks |-> 0, replies |-> 0, unsubscribed |-> FALSE, sendEventId |-> NULL]

\* lines 179-188
initializeRecipient(map, recipient) ==
    IF ~hasRecipient(map, recipient)
    THEN Append(map, [recipient |-> recipient, data |-> initialRecipientData])
    ELSE map

\* lines 192-201
recordSendEvent(data, event) ==
    IF event.type \in sendTypes /\ FalsyId(data.sendEventId)
    THEN [data EXCEPT !.sendEventId = event.id]
    ELSE data

\* A switch whose OPEN case has lost its break and falls through to CLICK.
trackEngagementFallThrough(data, event) ==
    CASE event.type = "OPEN"        -> [data EXCEPT !.opens = @ + 1, !.clicks = @ + 1]
      [] event.type = "CLICK"       -> [data EXCEPT !.clicks = @ + 1]
      [] event.type = "UNSUBSCRIBE" -> [data EXCEPT !.unsubscribed = TRUE]
      [] event.type = "REPLY"       -> [data EXCEPT !.replies = @ + 1]
      [] OTHER                      -> data

\* A switch whose UNSUBSCRIBE case flips the flag instead of setting it.
trackEngagementToggling(data, event) ==
    CASE event.type = "OPEN"        -> [data EXCEPT !.opens = @ + 1]
      [] event.type = "CLICK"       -> [data EXCEPT !.clicks = @ + 1]
      [] event.type = "UNSUBSCRIBE" -> [data EXCEPT !.unsubscribed = ~@]
      [] event.type = "REPLY"       -> [data EXCEPT !.replies = @ + 1]
      [] OTHER                      -> data

\* lines 203-217
trackEngagement(data, event) ==
    CASE event.type = "OPEN"        -> [data EXCEPT !.opens = @ + 1]
      [] event.type = "CLICK"       -> [data EXCEPT !.clicks = @ + 1]
      [] event.type = "UNSUBSCRIBE" -> [data EXCEPT !.unsubscribed = TRUE]
      [] event.type = "REPLY"       -> [data EXCEPT !.replies = @ + 1]
      [] OTHER                      -> data

\* The callback of emailEvents.forEach, lines 175-218.
forEachEvent(map, event) ==
    LET initialized == initializeRecipient(map, event.recipient)
        i == indexOfRecipient(initialized, event.recipient)
    IN  [initialized EXCEPT ![i].data = trackEngagement(recordSendEvent(@, event), event)]

\* allEvents.filter((event) => event.emailCampaignId === campaignIdentifier)
emailEventsOf(campaign, events) ==
    SelectSeq(events, LAMBDA event : event.emailCampaignId = campaign)

RECURSIVE forEach(_, _)
forEach(map, events) ==
    IF events = <<>> THEN map
    ELSE forEach(forEachEvent(map, Head(events)), Tail(events))

processEmailEvents(campaign, events) == forEach(<<>>, emailEventsOf(campaign, events))

----------------------------------------------------------------------------
(* The send-record projection and the files written. *)

leadText == <<"l","e","a","d">>

\* The same lookup without toLowerCase.
determineCaseSensitively(emailAddress) ==
    IF includes(emailAddress, leadText)
    THEN [type |-> "Lead", recordIdentifier |-> "00Q_simulatedLeadId"]
    ELSE [type |-> "Contact", recordIdentifier |-> "003_simulatedContactId"]

\* lines 226-234
determineIfHubSpotContactIsSalesforceContactOrLead(emailAddress) ==
    IF includes(toLowerCase(emailAddress), leadText)
    THEN [type |-> "Lead", recordIdentifier |-> "00Q_simulatedLeadId"]
    ELSE [type |-> "Contact", recordIdentifier |-> "003_simulatedContactId"]

\* hubSpotSendIdentifier || "N/A" (lines 261 and 293)
orNotAvailable(id) == IF FalsyId(id) THEN "N/A" ELSE id

\* lines 249-266; CreatedById is left out of the JSON text when it is undefined
recordDataOf(parameters, integrationUserIdentifier) ==
    [Contact__c |-> IF parameters.salesforceContactOrLeadType = "Contact"
                    THEN parameters.salesforceRecordIdentifier ELSE NULL,
     Lead__c |-> IF parameters.salesforceContactOrLeadType = "Lead"
                 THEN parameters.salesforceRecordIdentifier ELSE NULL,
     CreatedById |-> integrationUserIdentifier,
     Email_Address__c |-> parameters.recipient,
     HubSpot_Email_Campaign__c |-> parameters.campaignIdentifier,
     HubSpot_Email_Send_ID__c |-> orNotAvailable(parameters.hubSpotSendIdentifier),
     Total_Clicks__c |-> parameters.recipientData.clicks,
     Total_Opened__c |-> parameters.recipientData.opens,
     Total_Replies__c |-> parameters.recipientData.replies,
     Unsubscribed__c |-> parameters.recipientData.unsubscribed]

\* lines 238-280: the file writeSalesforceSendPayloadToFile writes
writeSalesforceSendPayloadToFile(parameters, integrationUserIdentifier) ==
    [file |-> sendFileName(parameters.campaignIdentifier, parameters.recipient),
     data |-> recordDataOf(parameters, integrationUserIdentifier)]

\* lines 289-313: the parameters built for one recipient of one analysis
sendParameters(campaign, entry) ==
    LET salesforceRecord == determineIfHubSpotContactIsSalesforceContactOrLead(entry.recipient)
    IN  [salesforceContactOrLeadType |-> salesforceRecord.type,
         salesforceRecordIdentifier |-> salesforceRecord.recordIdentifier,
         recipient |-> entry.recipient,
         campaignIdentifier |-> campaign,
         hubSpotSendIdentifier |-> orNotAvailable(entry.data.sendEventId),
         recipientData |-> entry.data]

\* for (const recipient in recipientEventsMap), line 289
recipientsToSend(map) == map

\* lines 285-290: the (analysis, recipient) pairs in the order of the nested loops
RECURSIVE sendJobs(_)
sendJobs(analysisResults) ==
    IF analysisResults = <<>> THEN <<>>
    ELSE LET campaignAnalysis == Head(analysisResults)
             entries == recipientsToSend(campaignAnalysis.recipientEventsMap)
         IN  [i \in DOMAIN entries |->
                 [campaignIdentifier |-> campaignAnalysis.id, entry |-> entries[i]]]
             \o sendJobs(Tail(analysisResults))

----------------------------------------------------------------------------
(* The HubSpot API, as the program sees it. *)

campaignIds == {1, 2}
bob == <<"b","@","x">>
teamLead == <<"L","e","A","d","@","x">>
pipelineRecipients == {bob, teamLead}

\* What an event of the pipeline's endpoint may be, its id apart.
pipelineTemplates ==
    [type : {"SENT", "OPEN"}, recipient : pipelineRecipients, emailCampaignId : campaignIds]
\* The events endpoint of a run of getAllEvents alone: only the number of events matters.
fetchTemplates == {[type |-> "SENT", recipient |-> bob, emailCampaignId |-> 1]}

\* Sequences over S of length 0..n
RECURSIVE seqsUpTo(_, _)
seqsUpTo(S, n) ==
    IF n = 0 THEN {<<>>}
    ELSE LET shorter == seqsUpTo(S, n - 1)
         IN  shorter \cup {Append(q, x) : q \in {t \in shorter : Len(t) = n - 1}, x \in S}

\* HubSpot numbers the events it hands out: the k-th event of a run has id "e<k>".
eventIdOf(k) == "e" \o ToString(k)
pageOf(templates, served) ==
    [i \in DOMAIN templates |->
        [id |-> eventIdOf(served + i), type |-> templates[i].type,
         recipient |-> templates[i].recipient,
         emailCampaignId |-> templates[i].emailCampaignId]]

failure == [ok |-> FALSE]

\* HubSpot answers a request that carries no valid bearer token with an error.
answers(possible) ==
    IF Truthy(variables.hubspotAccessToken) THEN possible \cup {failure} ELSE {failure}

\* response.data of GET /email/public/v1/events: at most `limit` events, hasMore and
\* the next cursor.
RECURSIVE eventsServed(_)
eventsServed(answered) ==
    IF answered = <<>> THEN 0
    ELSE (IF Head(answered).ok /\ "events" \in DOMAIN Head(answered)
          THEN Len(Head(answered).events) ELSE 0)
         + eventsServed(Tail(answered))

\* The endpoint of the pipeline fills its pages: a page that is not the last holds
\* `limit` events, says hasMore and gives the number of events served as the cursor;
\* the last page holds what is left.
filledPageResponses(templates, maxEvents) ==
    LET served == eventsServed(responses)
        left == maxEvents - served
        room == IF left < batchLimit THEN left ELSE batchLimit
    IN  {[ok |-> TRUE, events |-> pageOf(t, served), hasMore |-> FALSE, offset |-> Absent] :
            t \in seqsUpTo(templates, room)}
        \cup
        {[ok |-> TRUE, events |-> pageOf(t, served), hasMore |-> TRUE,
          offset |-> Some(served + batchLimit)] :
            t \in {q \in seqsUpTo(templates, room) : Len(q) = batchLimit}}

\* The endpoint of a run of getAllEvents alone answers anything the API allows; it
\* says hasMore at most maxPages times and hands out at most maxEvents events.
pageResponses(templates, maxEvents, maxPages, offsets) ==
    LET served == eventsServed(responses)
        pagesSoFar == Cardinality({i \in DOMAIN requests : requests[i].endpoint = "events"})
        room == IF maxEvents - served < batchLimit THEN maxEvents - served ELSE batchLimit
    IN  {[ok |-> TRUE, events |-> pageOf(t, served), hasMore |-> more, offset |-> o] :
            t \in seqsUpTo(templates, room),
            more \in {b \in BOOLEAN : b => pagesSoFar < maxPages},
            o \in offsets}

\* response.data of GET /email/public/v1/campaigns/<id>
campaignResponses(campaign) ==
    {[ok |-> TRUE, data |-> [id |-> campaign, contentId |-> c]] :
        c \in {Absent, Some(70 + campaign)}}

\* response.data of GET /marketing-emails/v1/emails/with-statistics/<id>
contentResponses(content) ==
    {[ok |-> TRUE, data |-> [id |-> content, campaign |-> g]] :
        g \in {Absent, Some(20 + content)}}

\* response.data of GET /marketing/v3/campaigns/<id>: updatedAt is missing, or an
\* instant one millisecond before the watermark, at it, or in the next second.
updatedAtValues ==
    {Absent, Some([sec |-> 1704070861, ms |-> 0]),
     Some([sec |-> 1704070861, ms |-> 1]), Some([sec |-> 1704070862, ms |-> 0])}
hubspotCampaignResponses(campaign) ==
    {[ok |-> TRUE, data |-> [id |-> campaign, updatedAt |-> u]] : u \in updatedAtValues}

request(endpoint, argument) == [endpoint |-> endpoint, argument |-> argument]

----------------------------------------------------------------------------
(* getAllEvents, lines 61-104. *)

\* ...(nextOffset && { offset: nextOffset }): a cursor that is undefined or 0 is left out
offsetParameter(offset) == IF Truthy(offset) /\ offset # Some(0) THEN offset ELSE Absent

\* The cap compared with > where the source has >=.
pageReceivedStrictCap(events, more, offset, data) ==
    LET appended == IF Len(data.events) > 0 THEN events \o data.events ELSE events
    IN  IF Len(data.events) > 0 /\ testMode /\ Len(appended) > testEventLimit
        THEN [allEvents |-> appended, hasMoreEvents |-> FALSE, nextOffset |-> offset]
        ELSE [allEvents |-> appended, hasMoreEvents |-> data.hasMore,
              nextOffset |-> data.offset]

\* A loop that takes a page without events for the end of the events.
pageReceivedStoppingOnEmpty(events, more, offset, data) ==
    IF Len(data.events) = 0
    THEN [allEvents |-> events, hasMoreEvents |-> FALSE, nextOffset |-> offset]
    ELSE LET appended == events \o data.events
         IN  IF testMode /\ Len(appended) >= testEventLimit
             THEN [allEvents |-> appended, hasMoreEvents |-> FALSE, nextOffset |-> offset]
             ELSE [allEvents |-> appended, hasMoreEvents |-> data.hasMore,
                   nextOffset |-> data.offset]

\* lines 80-96: what one answered page does to the locals of the loop
pageReceived(events, more, offset, data) ==
    LET appended == IF Len(data.events) > 0 THEN events \o data.events ELSE events
    IN  IF Len(data.events) > 0 /\ testMode /\ Len(appended) >= testEventLimit
        THEN [allEvents |-> appended, hasMoreEvents |-> FALSE, nextOffset |-> offset]
        ELSE [allEvents |-> appended, hasMoreEvents |-> data.hasMore,
              nextOffset |-> data.offset]

\* A catch block that gives up the events fetched so far.
pageFailedDroppingEvents(events, more, offset) ==
    [allEvents |-> <<>>, hasMoreEvents |-> FALSE, nextOffset |-> offset]

\* lines 97-100: what a failed page request does to them
pageFailed(events, more, offset) ==
    [allEvents |-> events, hasMoreEvents |-> FALSE, nextOffset |-> offset]

\* One turn of the while loop: the request, then its answer or its failure.
GetPage(possible) ==
    /\ pc = "getAllEvents"
    /\ hasMoreEvents
    /\ requests' = Append(requests, request("events", offsetParameter(nextOffset)))
    /\ \E response \in answers(possible) :
          LET locals == IF response.ok
                        THEN pageReceived(allEvents, hasMoreEvents, nextOffset, response)
                        ELSE pageFailed(allEvents, hasMoreEvents, nextOffset)
          IN  /\ responses' = Append(responses, response)
              /\ allEvents' = locals.allEvents
              /\ hasMoreEvents' = locals.hasMoreEvents
              /\ nextOffset' = locals.nextOffset
    /\ UNCHANGED <<variables, testMode, pc, campaignIdentifier, recipientEventsMap,
                   campaignIdentifiers, campaignIndex, campaignDetails, contentDetails,
                   results, sendIndex, directories, writes>>

\* line 103: return allEvents
GetAllEventsReturn ==
    /\ pc = "getAllEvents"
    /\ ~hasMoreEvents
    /\ pc' = "campaignIdentifiers"
    /\ UNCHANGED <<variables, testMode, allEvents, hasMoreEvents, nextOffset, requests, responses,
                   campaignIdentifier, recipientEventsMap, campaignIdentifiers,
                   campaignIndex, campaignDetails, contentDetails, results, sendIndex,
                   directories, writes>>

----------------------------------------------------------------------------
(* The three point lookups, lines 107-162. Each returns the data of the    *)
(* response, or null when the request failed; none of them raises.         *)

returned(value) == [raised |-> FALSE, value |-> value]
raised == [raised |-> TRUE, value |-> Absent]

\* lines 107-121
getEmailCampaignDetails(response) ==
    IF response.ok THEN returned(Some(response.data)) ELSE returned(Absent)

\* A lookup whose catch block raises the error again.
getEmailContentRaising(response) ==
    IF response.ok THEN returned(Some(response.data)) ELSE raised

\* lines 124-145
getEmailContent(response) ==
    IF response.ok THEN returned(Some(response.data)) ELSE returned(Absent)

\* lines 148-162
getHubSpotCampaign(response) ==
    IF response.ok THEN returned(Some(response.data)) ELSE returned(Absent)

----------------------------------------------------------------------------
(* compileEmailAnalytics, lines 319-425. *)

\* new Date(value): a missing value gives an invalid Date
dateOf(value) == IF Truthy(value) THEN value[1] ELSE NaN

\* a < b on two Dates: false when either is invalid
dateBefore(a, b) ==
    /\ a # NaN
    /\ b # NaN
    /\ \/ a.sec < b.sec
       \/ a.sec = b.sec /\ a.ms < b.ms

\* [...new Set(allEvents.map((event) => event.emailCampaignId))], lines 327-329
RECURSIVE distinctInOrder(_, _)
distinctInOrder(seen, events) ==
    IF events = <<>> THEN seen
    ELSE distinctInOrder(
            IF Head(events).emailCampaignId \in Range(seen) THEN seen
            ELSE Append(seen, Head(events).emailCampaignId),
            Tail(events))
\* The distinct ids in ascending order instead of the order of first appearance.
RECURSIVE ascending(_)
ascending(S) ==
    IF S = {} THEN <<>>
    ELSE LET least == CHOOSE x \in S : \A y \in S : x <= y
         IN  <<least>> \o ascending(S \ {least})
campaignIdentifiersSorted(events) ==
    ascending({events[i].emailCampaignId : i \in DOMAIN events})

campaignIdentifiersOf(events) == distinctInOrder(<<>>, events)

\* The test of line 346 without its second operand.
hasContentDetails(content) == Truthy(content)

\* line 346: contentDetails && contentDetails.campaign
hasCampaignReference(content) == Truthy(content) /\ Truthy(content[1].campaign)

\* The decision without the else branch of lines 361-367.
includeCampaignWhenUnresolved(hubspotCampaignDetails) ==
    IF Truthy(hubspotCampaignDetails)
    THEN ~dateBefore(dateOf(hubspotCampaignDetails[1].updatedAt), watermarkDate)
    ELSE TRUE

\* The decision with the watermark itself on the excluded side.
includeCampaignStrictlyAfter(hubspotCampaignDetails) ==
    IF Truthy(hubspotCampaignDetails)
    THEN dateBefore(watermarkDate, dateOf(hubspotCampaignDetails[1].updatedAt))
    ELSE FALSE

\* lines 351-367: the decision once the campaign object has been looked up
includeCampaign(hubspotCampaignDetails) ==
    IF Truthy(hubspotCampaignDetails)
    THEN ~dateBefore(dateOf(hubspotCampaignDetails[1].updatedAt), watermarkDate)
    ELSE FALSE

\* lines 387-392
analysisOf(campaign, details, content, events) ==
    [id |-> campaign, campaign |-> details[1], content |-> content[1],
     recipientEventsMap |-> processEmailEvents(campaign, events)]

currentCampaign == campaignIdentifiers[campaignIndex]

\* lines 320-324 and 62-65
Start ==
    /\ pc = "start"
    /\ directories' = directories \cup {outputDirectory}
    /\ allEvents' = <<>>
    /\ hasMoreEvents' = TRUE
    /\ nextOffset' = Absent
    /\ pc' = "getAllEvents"
    /\ UNCHANGED <<variables, testMode, requests, responses, campaignIdentifier, recipientEventsMap,
                   campaignIdentifiers, campaignIndex, campaignDetails, contentDetails,
                   results, sendIndex, writes>>

\* lines 327-331
ExtractCampaignIdentifiers ==
    /\ pc = "campaignIdentifiers"
    /\ campaignIdentifiers' = campaignIdentifiersOf(allEvents)
    /\ campaignIndex' = 1
    /\ results' = <<>>
    /\ pc' = "campaign"
    /\ UNCHANGED <<variables, testMode, allEvents, hasMoreEvents, nextOffset, requests, responses,
                   campaignIdentifier, recipientEventsMap, campaignDetails,
                   contentDetails, sendIndex, directories, writes>>

\* `continue`: on to the next campaign id
NextCampaign ==
    /\ campaignIndex' = campaignIndex + 1
    /\ campaignDetails' = Absent
    /\ contentDetails' = Absent
    /\ pc' = "campaign"

\* lines 421-424: an exception leaves the loop and is raised to the caller
Raise ==
    /\ pc' = "failed"
    /\ UNCHANGED <<campaignIndex, campaignDetails, contentDetails>>

\* lines 332-342, up to the content lookup
LookupCampaign ==
    /\ pc = "campaign"
    /\ campaignIndex <= Len(campaignIdentifiers)
    /\ requests' = Append(requests, request("campaign", Some(currentCampaign)))
    /\ \E response \in answers(campaignResponses(currentCampaign)) :
          LET result == getEmailCampaignDetails(response)
          IN  /\ responses' = Append(responses, response)
              /\ IF result.raised THEN Raise
                 ELSE IF ~Truthy(result.value) THEN NextCampaign
                 ELSE IF Truthy(result.value[1].contentId)
                      THEN /\ campaignDetails' = result.value
                           /\ pc' = "content"
                           /\ UNCHANGED <<campaignIndex, contentDetails>>
                      ELSE NextCampaign
    /\ UNCHANGED <<variables, testMode, allEvents, hasMoreEvents, nextOffset,
                   campaignIdentifier, recipientEventsMap, campaignIdentifiers, results,
                   sendIndex, directories, writes>>

\* lines 340-350 and 368-378
LookupContent ==
    /\ pc = "content"
    /\ requests' = Append(requests, request("content", campaignDetails[1].contentId))
    /\ \E response \in answers(contentResponses(campaignDetails[1].contentId[1])) :
          LET result == getEmailContent(response)
          IN  /\ responses' = Append(responses, response)
              /\ IF result.raised THEN Raise
                 ELSE IF hasCampaignReference(result.value)
                      THEN /\ contentDetails' = result.value
                           /\ pc' = "hubspotCampaign"
                           /\ UNCHANGED <<campaignIndex, campaignDetails>>
                      ELSE NextCampaign
    /\ UNCHANGED <<variables, testMode, allEvents, hasMoreEvents, nextOffset,
                   campaignIdentifier, recipientEventsMap, campaignIdentifiers, results,
                   sendIndex, directories, writes>>

\* lines 347-367 and 376-402
LookupHubSpotCampaign ==
    /\ pc = "hubspotCampaign"
    /\ requests' = Append(requests, request("hubspotCampaign", contentDetails[1].campaign))
    /\ \E response \in answers(hubspotCampaignResponses(contentDetails[1].campaign[1])) :
          LET result == getHubSpotCampaign(response)
              analysis == analysisOf(currentCampaign, campaignDetails, contentDetails,
                                     allEvents)
          IN  /\ responses' = Append(responses, response)
              /\ IF result.raised
                 THEN /\ Raise
                      /\ UNCHANGED <<campaignIdentifier, recipientEventsMap, results, writes>>
                 ELSE IF includeCampaign(result.value)
                      THEN /\ campaignIdentifier' = currentCampaign
                           /\ recipientEventsMap' = analysis.recipientEventsMap
                           /\ results' = Append(results, analysis)
                           /\ writes' = Append(writes,
                                  [file |-> campaignFileName(currentCampaign),
                                   data |-> analysis])
                           /\ NextCampaign
                      ELSE /\ NextCampaign
                           /\ UNCHANGED <<campaignIdentifier, recipientEventsMap, results,
                                          writes>>
    /\ UNCHANGED <<variables, testMode, allEvents, hasMoreEvents, nextOffset,
                   campaignIdentifiers, sendIndex, directories>>

\* The summary written with the last analysis only.
WriteSummaryOfLastAnalysis ==
    /\ pc = "campaign"
    /\ campaignIndex > Len(campaignIdentifiers)
    /\ writes' = Append(writes,
                        [file |-> summaryFileName,
                         data |-> IF results = <<>> THEN <<>>
                                  ELSE <<results[Len(results)]>>])
    /\ sendIndex' = 1
    /\ pc' = "writeAllEmailSendsToFiles"
    /\ UNCHANGED <<variables, testMode, allEvents, hasMoreEvents, nextOffset, requests, responses,
                   campaignIdentifier, recipientEventsMap, campaignIdentifiers,
                   campaignIndex, campaignDetails, contentDetails, results, directories>>

\* lines 405-410
WriteSummary ==
    /\ pc = "campaign"
    /\ campaignIndex > Len(campaignIdentifiers)
    /\ writes' = Append(writes, [file |-> summaryFileName, data |-> results])
    /\ sendIndex' = 1
    /\ pc' = "writeAllEmailSendsToFiles"
    /\ UNCHANGED <<variables, testMode, allEvents, hasMoreEvents, nextOffset, requests, responses,
                   campaignIdentifier, recipientEventsMap, campaignIdentifiers,
                   campaignIndex, campaignDetails, contentDetails, results, directories>>

\* One turn of the inner loop of writeAllEmailSendsToFiles, lines 289-314.
WriteSend ==
    /\ pc = "writeAllEmailSendsToFiles"
    /\ sendIndex <= Len(sendJobs(results))
    /\ LET job == sendJobs(results)[sendIndex]
       IN  writes' = Append(writes,
               writeSalesforceSendPayloadToFile(
                   sendParameters(job.campaignIdentifier, job.entry),
                   variables.salesforceIntegrationUserId))
    /\ directories' = directories \cup {salesforceSendsDirectory}
    /\ sendIndex' = sendIndex + 1
    /\ UNCHANGED <<variables, testMode, pc, allEvents, hasMoreEvents, nextOffset, requests, responses,
                   campaignIdentifier, recipientEventsMap, campaignIdentifiers,
                   campaignIndex, campaignDetails, contentDetails, results>>

\* line 420: return results
Finish ==
    /\ pc = "writeAllEmailSendsToFiles"
    /\ sendIndex > Len(sendJobs(results))
    /\ pc' = "done"
    /\ UNCHANGED <<variables, testMode, allEvents, hasMoreEvents, nextOffset, requests, responses,
                   campaignIdentifier, recipientEventsMap, campaignIdentifiers,
                   campaignIndex, campaignDetails, contentDetails, results, sendIndex,
                   directories, writes>>

\* The state once the module is loaded, before compileEmailAnalytics is called.
Idle ==
    /\ allEvents = <<>>
    /\ hasMoreEvents = FALSE
    /\ nextOffset = Absent
    /\ requests = <<>>
    /\ responses = <<>>
    /\ campaignIdentifier = 0
    /\ recipientEventsMap = <<>>
    /\ campaignIdentifiers = <<>>
    /\ campaignIndex = 1
    /\ campaignDetails = Absent
    /\ contentDetails = Absent
    /\ results = <<>>
    /\ sendIndex = 1
    /\ directories = {}
    /\ writes = <<>>

Init ==
    /\ variables \in [hubspotAccessToken : {Absent, Some("token")},
                      salesforceIntegrationUserId : {Some("005_integrationUser")}]
    /\ testMode = FALSE
    /\ pc = "start"
    /\ Idle

Next ==
    \/ Start
    \/ GetPage(filledPageResponses(pipelineTemplates, MaxEvents))
    \/ GetAllEventsReturn
    \/ ExtractCampaignIdentifiers
    \/ LookupCampaign
    \/ LookupContent
    \/ LookupHubSpotCampaign
    \/ WriteSummary
    \/ WriteSend
    \/ Finish

Spec == Init /\ [][Next]_vars

----------------------------------------------------------------------------
(* getAllEvents alone: any cursor, any page length up to batchLimit, with   *)
(* test mode on or off.                                                     *)

fetchOffsets == {Absent, Some(0), Some(1), Some(2)}

InitFetch ==
    /\ variables \in [hubspotAccessToken : {Absent, Some("token")},
                      salesforceIntegrationUserId : {Some("005_integrationUser")}]
    /\ testMode \in BOOLEAN
    /\ pc = "start"
    /\ Idle

NextFetch ==
    \/ Start
    \/ GetPage(pageResponses(fetchTemplates, MaxFetchEvents, MaxFetchPages, fetchOffsets))
    \/ GetAllEventsReturn

SpecFetch == InitFetch /\ [][NextFetch]_vars

\* getAllEvents alone under fairness, with the three kinds of cursor an answer may
\* give: none, the falsy cursor 0 and a truthy cursor. Every await of the loop is
\* resolved or rejected, and the loop then takes its next turn or returns.
cursorKinds == {Absent, Some(0), Some(2)}

NextFetchFair ==
    \/ Start
    \/ GetPage(pageResponses(fetchTemplates, MaxFetchEvents, MaxFetchPages, cursorKinds))
    \/ GetAllEventsReturn

SpecFetchFair == InitFetch /\ [][NextFetchFair]_vars /\ WF_vars(NextFetchFair)

----------------------------------------------------------------------------
(* processEmailEvents alone: the pass of forEach over an event list that    *)
(* is drawn one event at a time, so that every list of up to MaxAggEvents   *)
(* events is aggregated and every step of the pass is a state.              *)

eventTypes == {"SENT", "OPEN", "CLICK", "UNSUBSCRIBE", "REPLY", "BOUNCE"}

\* Events numbered as HubSpot numbers them.
numberedEvents ==
    [id : {eventIdOf(Len(allEvents) + 1)}, type : eventTypes,
     recipient : pipelineRecipients, emailCampaignId : campaignIds]

\* Events with any id, the empty text included.
anyIdEvents ==
    [id : {"", "e1", "e2"}, type : {"SENT", "DELIVERED", "PROCESSED", "OPEN"},
     recipient : pipelineRecipients, emailCampaignId : campaignIds]

ForEachEvent(universe) ==
    /\ pc = "processEmailEvents"
    /\ Len(allEvents) < MaxAggEvents
    /\ \E event \in universe :
          /\ allEvents' = Append(allEvents, event)
          /\ recipientEventsMap' =
                forEach(recipientEventsMap, emailEventsOf(campaignIdentifier, <<event>>))
    /\ UNCHANGED <<variables, testMode, pc, hasMoreEvents, nextOffset, requests, responses,
                   campaignIdentifier, campaignIdentifiers, campaignIndex,
                   campaignDetails, contentDetails, results, sendIndex, directories,
                   writes>>

InitAgg ==
    /\ variables = [hubspotAccessToken |-> Some("token"),
                    salesforceIntegrationUserId |-> Some("005_integrationUser")]
    /\ testMode = FALSE
    /\ pc = "processEmailEvents"
    /\ allEvents = <<>>
    /\ hasMoreEvents = FALSE
    /\ nextOffset = Absent
    /\ requests = <<>>
    /\ responses = <<>>
    /\ campaignIdentifier \in campaignIds
    /\ recipientEventsMap = <<>>
    /\ campaignIdentifiers = <<>>
    /\ campaignIndex = 1
    /\ campaignDetails = Absent
    /\ contentDetails = Absent
    /\ results = <<>>
    /\ sendIndex = 1
    /\ directories = {}
    /\ writes = <<>>

NextAgg == ForEachEvent(numberedEvents)

SpecAgg == InitAgg /\ [][NextAgg]_vars

NextSendId == ForEachEvent(anyIdEvents)

SpecSendId == InitAgg /\ [][NextSendId]_vars

----------------------------------------------------------------------------
(* The pass of processEmailEvents over the events of one campaign, one      *)
(* event at a time, and then the send records of the map it returns.        *)

\* The events of the campaign, numbered as HubSpot numbers them.
campaignEvents ==
    [id : {eventIdOf(Len(allEvents) + 1)},
     type : {"SENT", "OPEN", "CLICK", "UNSUBSCRIBE", "REPLY"},
     recipient : pipelineRecipients, emailCampaignId : {campaignIdentifier}]

\* line 220 (return recipientEventsMap), lines 386-392 and line 418: the map becomes
\* the recipientEventsMap of the campaign's analysis, which is handed to
\* writeAllEmailSendsToFiles.
ReturnRecipientEventsMap ==
    /\ pc = "processEmailEvents"
    /\ results' = <<[id |-> campaignIdentifier,
                     campaign |-> [id |-> campaignIdentifier,
                                   contentId |-> Some(70 + campaignIdentifier)],
                     content |-> [id |-> 70 + campaignIdentifier,
                                  campaign |-> Some(90 + campaignIdentifier)],
                     recipientEventsMap |-> recipientEventsMap]>>
    /\ sendIndex' = 1
    /\ pc' = "writeAllEmailSendsToFiles"
    /\ UNCHANGED <<variables, testMode, allEvents, hasMoreEvents, nextOffset, requests,
                   responses, campaignIdentifier, recipientEventsMap, campaignIdentifiers,
                   campaignIndex, campaignDetails, contentDetails, directories, writes>>

NextPass ==
    \/ ForEachEvent(campaignEvents)
    \/ ReturnRecipientEventsMap
    \/ WriteSend
    \/ Finish

SpecPass == InitAgg /\ [][NextPass]_vars

----------------------------------------------------------------------------
(* writeAllEmailSendsToFiles alone, on one analysis with one recipient:     *)
(* every address of up to MaxRecipientLen characters over an alphabet that  *)
(* spells "lead" in both letter cases.                                      *)

projectCharacters == {"l", "L", "e", "a", "A", "d", "@"}

projectRecipients == seqsUpTo(projectCharacters, MaxRecipientLen) \ {<<>>}

projectData ==
    {initialRecipientData,
     [opens |-> 2, clicks |-> 1, replies |-> 1, unsubscribed |-> TRUE, sendEventId |-> "e1"]}

InitProject ==
    /\ variables \in [hubspotAccessToken : {Some("token")},
                      salesforceIntegrationUserId : {Some("005_integrationUser")}]
    /\ testMode = FALSE
    /\ pc = "writeAllEmailSendsToFiles"
    /\ allEvents = <<>>
    /\ hasMoreEvents = FALSE
    /\ nextOffset = Absent
    /\ requests = <<>>
    /\ responses = <<>>
    /\ campaignIdentifier = 0
    /\ recipientEventsMap = <<>>
    /\ campaignIdentifiers = <<>>
    /\ campaignIndex = 1
    /\ campaignDetails = Absent
    /\ contentDetails = Absent
    /\ \E r \in projectRecipients, d \in projectData :
          results = <<[id |-> 1,
                       campaign |-> [id |-> 1, contentId |-> Some(71)],
                       content |-> [id |-> 71, campaign |-> Some(91)],
                       recipientEventsMap |-> <<[recipient |-> r, data |-> d]>>]>>
    /\ sendIndex = 1
    /\ directories = {outputDirectory}
    /\ writes = <<>>

NextProject ==
    \/ WriteSend
    \/ Finish

SpecProject == InitProject /\ [][NextProject]_vars

----------------------------------------------------------------------------
(* writeAllEmailSendsToFiles alone, on one analysis with two recipients     *)
(* whose addresses differ: every local part of up to MaxLocalPartLen        *)
(* characters, some of which the file name keeps and some of which it       *)
(* replaces, at the domain x.                                               *)

localPartCharacters == {"a", "+", "_", "."}

sendRecipients ==
    {localPart \o <<"@", "x">> :
        localPart \in seqsUpTo(localPartCharacters, MaxLocalPartLen) \ {<<>>}}

InitSends ==
    /\ variables \in [hubspotAccessToken : {Some("token")},
                      salesforceIntegrationUserId : {Some("005_integrationUser")}]
    /\ testMode = FALSE
    /\ pc = "writeAllEmailSendsToFiles"
    /\ allEvents = <<>>
    /\ hasMoreEvents = FALSE
    /\ nextOffset = Absent
    /\ requests = <<>>
    /\ responses = <<>>
    /\ campaignIdentifier = 0
    /\ recipientEventsMap = <<>>
    /\ campaignIdentifiers = <<>>
    /\ campaignIndex = 1
    /\ campaignDetails = Absent
    /\ contentDetails = Absent
    /\ \E first \in sendRecipients :
       \E second \in sendRecipients \ {first} :
          results = <<[id |-> 1,
                       campaign |-> [id |-> 1, contentId |-> Some(71)],
                       content |-> [id |-> 71, campaign |-> Some(91)],
                       recipientEventsMap |->
                           <<[recipient |-> first,
                              data |-> [initialRecipientData EXCEPT !.sendEventId = "e1"]],
                             [recipient |-> second,
                              data |-> [initialRecipientData EXCEPT !.sendEventId = "e2"]]>>]>>
    /\ sendIndex = 1
    /\ directories = {outputDirectory}
    /\ writes = <<>>

NextSends ==
    \/ WriteSend
    \/ Finish

SpecSends == InitSends /\ [][NextSends]_vars

----------------------------------------------------------------------------
(* The properties. *)

eventsOfRecipient(campaign, recipient) ==
    {i \in DOMAIN allEvents :
        /\ allEvents[i].emailCampaignId = campaign
        /\ allEvents[i].recipient = recipient}

countOfType(indices, type) == Cardinality({i \in indices : allEvents[i].type = type})

engagementOf(map, recipient) ==
    IF hasRecipient(map, recipient)
    THEN LET d == dataOf(map, recipient)
         IN  <<d.opens, d.clicks, d.replies, d.unsubscribed>>
    ELSE <<>>

\* The list with the events at places i and j exchanged.
exchanged(events, i, j) ==
    [k \in DOMAIN events |->
        IF k = i THEN events[j] ELSE IF k = j THEN events[i] ELSE events[k]]

\* C1: for every campaign id, recipient and event list, processEmailEvents gives the
\* recipient opens, clicks and replies equal to the number of the recipient's OPEN,
\* CLICK and REPLY events of that campaign, and unsubscribed true iff one of them is an
\* UNSUBSCRIBE (a recipient with no event of the campaign has no entry); the four
\* values are the same for every permutation of the list, and the events of other
\* campaigns and other recipients do not change them. The formula holds of every list
\* of events, and every permutation is a product of exchanges of two events, so the
\* permutations are stated by the exchanges.
C1_EngagementCounts ==
    pc = "processEmailEvents" =>
        /\ recipientEventsMap = processEmailEvents(campaignIdentifier, allEvents)
        /\ \A r \in pipelineRecipients :
              LET mine == eventsOfRecipient(campaignIdentifier, r)
                  own == SelectSeq(allEvents,
                            LAMBDA e : e.emailCampaignId = campaignIdentifier
                                       /\ e.recipient = r)
              IN  /\ engagementOf(recipientEventsMap, r) =
                        IF mine = {} THEN <<>>
                        ELSE <<countOfType(mine, "OPEN"), countOfType(mine, "CLICK"),
                               countOfType(mine, "REPLY"),
                               countOfType(mine, "UNSUBSCRIBE") >= 1>>
                  /\ engagementOf(processEmailEvents(campaignIdentifier, own), r) =
                        engagementOf(recipientEventsMap, r)
        /\ \A j \in DOMAIN allEvents :
              \A i \in 1..(j - 1) :
                 LET shuffled == processEmailEvents(campaignIdentifier,
                                                    exchanged(allEvents, i, j))
                 IN  \A r \in pipelineRecipients :
                        engagementOf(shuffled, r) = engagementOf(recipientEventsMap, r)

\* A recipient with an OPEN and an UNSUBSCRIBE of the campaign, and an OPEN of another
\* campaign that is not counted.
C1_Witness ==
    /\ pc = "processEmailEvents"
    /\ hasRecipient(recipientEventsMap, bob)
    /\ dataOf(recipientEventsMap, bob).opens = 1
    /\ dataOf(recipientEventsMap, bob).unsubscribed
    /\ \E i \in DOMAIN allEvents :
          /\ allEvents[i].emailCampaignId # campaignIdentifier
          /\ allEvents[i].recipient = bob
          /\ allEvents[i].type = "OPEN"

\* C2: the sendEventId of a recipient is the id of the first event of the list, of the
\* campaign and of the recipient, whose type is SENT, DELIVERED or PROCESSED, whatever
\* the ids are, and it is null iff the recipient has no such event.
C2_FirstSendEventId ==
    pc = "processEmailEvents" =>
        \A r \in pipelineRecipients :
            hasRecipient(recipientEventsMap, r) =>
                LET sends == {i \in eventsOfRecipient(campaignIdentifier, r) :
                                 allEvents[i].type \in sendTypes}
                    first == CHOOSE i \in sends : \A j \in sends : i <= j
                IN  IF sends = {}
                    THEN dataOf(recipientEventsMap, r).sendEventId = NULL
                    ELSE dataOf(recipientEventsMap, r).sendEventId = allEvents[first].id

sendWrites == {i \in DOMAIN writes : writes[i].file.dir = salesforceSendsDirectory}

\* "lead" in any letter case, somewhere in the address
containsLeadInAnyCase(address) ==
    \E k \in 1..(Len(address) - 3) :
        /\ address[k] \in {"l", "L"}
        /\ address[k + 1] \in {"e", "E"}
        /\ address[k + 2] \in {"a", "A"}
        /\ address[k + 3] \in {"d", "D"}

\* C5: every send record written has exactly one of Contact__c and Lead__c non-null:
\* the lead id and a null contact iff the address contains "lead" in any letter case,
\* the contact id and a null lead otherwise.
C5_ContactOrLead ==
    \A i \in sendWrites :
        LET record == writes[i].data
        IN  /\ (record.Contact__c = NULL) # (record.Lead__c = NULL)
            /\ IF containsLeadInAnyCase(record.Email_Address__c)
               THEN record.Lead__c = "00Q_simulatedLeadId" /\ record.Contact__c = NULL
               ELSE record.Contact__c = "003_simulatedContactId" /\ record.Lead__c = NULL

\* A lead written for an address that spells "lead" in mixed case after another
\* character.
C5_Witness ==
    \E i \in sendWrites :
        /\ writes[i].data.Email_Address__c = <<"@", "L", "e", "A", "d">>
        /\ writes[i].data.Lead__c = "00Q_simulatedLeadId"

Last(seq) == seq[Len(seq)]

pageRequests == {i \in DOMAIN requests : requests[i].endpoint = "events"}
lookupRequests == DOMAIN requests \ pageRequests

\* The campaign id that the lookup requests[i] is made for.
campaignAt(i) ==
    LET j == CHOOSE j \in 1..i :
                /\ requests[j].endpoint = "campaign"
                /\ \A k \in (j + 1)..i : requests[k].endpoint # "campaign"
    IN  requests[j].argument[1]

campaignFileWrites == {i \in DOMAIN writes : writes[i].file.dir = outputDirectory
                                             /\ writes[i].file # summaryFileName}
summaryWrites == {i \in DOMAIN writes : writes[i].file = summaryFileName}

\* Nothing written is about the campaign: no email_<id>.json, no entry of a summary,
\* no send record.
leftOut(campaign) ==
    /\ \A i \in campaignFileWrites :
          /\ writes[i].file # campaignFileName(campaign)
          /\ writes[i].data.id # campaign
    /\ \A i \in summaryWrites :
          \A k \in DOMAIN writes[i].data : writes[i].data[k].id # campaign
    /\ \A i \in sendWrites :
          /\ writes[i].data.HubSpot_Email_Campaign__c # campaign
          /\ \A r \in pipelineRecipients : writes[i].file # sendFileName(campaign, r)

\* The instant is strictly before 2024-01-01T01:01:01.001Z, counted in milliseconds
\* from the watermark.
strictlyBeforeWatermark(instant) ==
    (instant.sec - 1704070861) * 1000 + (instant.ms - 1) < 0

\* What the answers say about the campaign of lookup i: its content metadata is absent
\* (no contentId to look up, or the lookup of the campaign or of the content failed),
\* the content names no campaign object, the campaign object is not resolved, or it
\* was updated before the watermark.
excludedByAnswer(i) ==
    \/ ~responses[i].ok
    \/ /\ requests[i].endpoint = "campaign"
       /\ responses[i].data.contentId = Absent
    \/ /\ requests[i].endpoint = "content"
       /\ responses[i].data.campaign = Absent
    \/ /\ requests[i].endpoint = "hubspotCampaign"
       /\ responses[i].data.updatedAt # Absent
       /\ strictlyBeforeWatermark(responses[i].data.updatedAt[1])

\* C3: a campaign whose content metadata is absent, or names no campaign object, or
\* whose campaign object is not resolved or was updated strictly before the watermark,
\* has no entry in the summary, no email_<id>.json and no send-record file.
C3_ExcludedCampaignLeftOut ==
    \A i \in lookupRequests : excludedByAnswer(i) => leftOut(campaignAt(i))

\* A finished run in which a campaign with a SENT event was updated one millisecond
\* before the watermark and is left out, while another campaign is written.
C3_Witness ==
    /\ pc = "done"
    /\ results # <<>>
    /\ \E i \in lookupRequests :
          /\ requests[i].endpoint = "hubspotCampaign"
          /\ responses[i].ok
          /\ responses[i].data.updatedAt = Some([sec |-> 1704070861, ms |-> 0])
          /\ \E j \in DOMAIN allEvents :
                /\ allEvents[j].emailCampaignId = campaignAt(i)
                /\ allEvents[j].type = "SENT"

\* C4: a send-record file is written for a campaign and a recipient only if the
\* recipient has an event of type SENT, DELIVERED or PROCESSED in that campaign.
C4_SendRecordNeedsSendEvent ==
    \A i \in sendWrites :
        \E j \in DOMAIN allEvents :
            /\ allEvents[j].emailCampaignId = writes[i].data.HubSpot_Email_Campaign__c
            /\ allEvents[j].recipient = writes[i].data.Email_Address__c
            /\ allEvents[j].type \in sendTypes

\* C8: with no access token in the configuration, no request is ever issued and the
\* run does not complete.
C8_NoRequestWithoutToken ==
    ~Truthy(variables.hubspotAccessToken) => (requests = <<>> /\ pc # "done")

RECURSIVE pagesConcatenated(_)
pagesConcatenated(answered) ==
    IF answered = <<>> THEN <<>>
    ELSE (IF Head(answered).ok THEN Head(answered).events ELSE <<>>)
         \o pagesConcatenated(Tail(answered))

pageResponsesSoFar == [i \in 1..Cardinality(pageRequests) |-> responses[i]]

\* C6: in test mode no page is requested once the accumulated events have reached the
\* cap, whatever the last answer said of further pages; the page that crosses the cap
\* is appended whole, so that the result stays below the cap plus one page; and a page
\* that leaves the count below the cap is handled as in normal mode: appended, with
\* hasMore and the cursor of the answer taken over.
C6_TestModeCap ==
    [][testMode =>
          /\ Len(allEvents) >= testEventLimit => requests' = requests
          /\ Len(allEvents') <= testEventLimit + batchLimit - 1
          /\ (responses' # responses /\ Last(responses').ok) =>
                LET page == Last(responses')
                IN  /\ allEvents' = allEvents \o page.events
                    /\ Len(allEvents') < testEventLimit =>
                          /\ hasMoreEvents' = page.hasMore
                          /\ nextOffset' = page.offset
                    /\ (Len(allEvents') >= testEventLimit /\ Len(page.events) > 0) =>
                          ~hasMoreEvents']_vars

\* getAllEvents has returned in test mode with one event less than the cap plus a
\* page, after an answer that announced more pages.
C6_Witness ==
    /\ testMode
    /\ pc = "campaignIdentifiers"
    /\ Len(allEvents) = testEventLimit + batchLimit - 1
    /\ Last(responses).ok
    /\ Last(responses).hasMore

\* C7: once a page request has failed, no further page is requested, nothing is
\* raised, getAllEvents can return, and allEvents is exactly the events of the pages
\* answered before the failure, in page order; the run goes on with them: the campaign
\* ids processed are theirs.
C7_PageFailureKeepsPartialSet ==
    LET failed == {i \in pageRequests : ~responses[i].ok}
    IN  failed # {} =>
           /\ \A i \in failed : \A j \in pageRequests : j <= i
           /\ ~hasMoreEvents
           /\ pc # "failed"
           /\ allEvents = pagesConcatenated(pageResponsesSoFar)
           /\ pc \notin {"start", "getAllEvents", "campaignIdentifiers"} =>
                 Range(campaignIdentifiers) =
                     {allEvents[k].emailCampaignId : k \in DOMAIN allEvents}
           /\ pc = "getAllEvents" => ENABLED GetAllEventsReturn

\* A finished run whose second page request failed and whose first page, of two events,
\* gave an analysis.
C7_Witness ==
    /\ pc = "done"
    /\ Cardinality(pageRequests) = 2
    /\ ~responses[2].ok
    /\ Len(allEvents) = 2
    /\ results # <<>>

\* C9: a lookup that fails never ends the run: nothing is raised, the campaign of the
\* failed lookup is left out of the files and of the summary, the campaign loop can
\* always take its next step, and once it is over every campaign id of the events has
\* been looked up and the summary is written.
C9_LookupFailureSkipsCampaign ==
    /\ pc # "failed"
    /\ pc \in {"campaign", "content", "hubspotCampaign"} =>
          ENABLED (LookupCampaign \/ LookupContent \/ LookupHubSpotCampaign
                   \/ WriteSummary)
    /\ \A i \in lookupRequests : ~responses[i].ok => leftOut(campaignAt(i))
    /\ pc \in {"writeAllEmailSendsToFiles", "done"} =>
          /\ \A k \in DOMAIN allEvents :
                \E i \in lookupRequests :
                    requests[i] = request("campaign", Some(allEvents[k].emailCampaignId))
          /\ summaryWrites # {}

\* A finished run in which the content lookup of one campaign failed and a campaign
\* looked up after it is in the summary.
C9_Witness ==
    /\ pc = "done"
    /\ \E i \in lookupRequests :
          /\ requests[i].endpoint = "content"
          /\ ~responses[i].ok
          /\ \E j \in lookupRequests, w \in summaryWrites :
                /\ j > i
                /\ requests[j].endpoint = "campaign"
                /\ \E k \in DOMAIN writes[w].data :
                      writes[w].data[k].id = requests[j].argument[1]

firstEventOf(campaign) ==
    CHOOSE k \in DOMAIN allEvents :
        /\ allEvents[k].emailCampaignId = campaign
        /\ \A j \in 1..(k - 1) : allEvents[j].emailCampaignId # campaign

firstEventOfRecipient(campaign, recipient) ==
    CHOOSE k \in eventsOfRecipient(campaign, recipient) :
        \A j \in eventsOfRecipient(campaign, recipient) : k <= j

campaignLookups == SelectSeq(requests, LAMBDA r : r.endpoint = "campaign")
eventCampaigns == {allEvents[k].emailCampaignId : k \in DOMAIN allEvents}

\* C10: each campaign id of the events is looked up once, in the order in which the
\* ids first appear in the events; the summary lists the campaigns of the campaign
\* files in the order in which these were written, which is that order too; and the
\* send records of one campaign are written in the order of the first event of each
\* recipient in that campaign.
C10_ProcessingOrder ==
    /\ \A i \in DOMAIN campaignLookups :
          LET c == campaignLookups[i].argument[1]
          IN  /\ c \in eventCampaigns
              /\ \A j \in 1..(i - 1) :
                    LET b == campaignLookups[j].argument[1]
                    IN  b # c /\ firstEventOf(b) < firstEventOf(c)
              /\ \A b \in eventCampaigns :
                    firstEventOf(b) < firstEventOf(c) =>
                        \E j \in 1..(i - 1) : campaignLookups[j].argument[1] = b
    /\ pc \in {"writeAllEmailSendsToFiles", "done"} =>
          {campaignLookups[i].argument[1] : i \in DOMAIN campaignLookups} = eventCampaigns
    /\ \A i, j \in campaignFileWrites :
          i < j => firstEventOf(writes[i].data.id) < firstEventOf(writes[j].data.id)
    /\ \A w \in summaryWrites :
          LET files == SelectSeq(SubSeq(writes, 1, w - 1),
                                 LAMBDA x : x.file.dir = outputDirectory)
          IN  writes[w].data = [k \in DOMAIN files |-> files[k].data]
    /\ \A i, j \in sendWrites :
          (i < j /\ writes[i].data.HubSpot_Email_Campaign__c
                        = writes[j].data.HubSpot_Email_Campaign__c) =>
              LET c == writes[i].data.HubSpot_Email_Campaign__c
              IN  firstEventOfRecipient(c, writes[i].data.Email_Address__c)
                      < firstEventOfRecipient(c, writes[j].data.Email_Address__c)

\* A finished run whose events are one of campaign 2 and then one of campaign 1, with
\* both campaigns in the summary, campaign 2 first.
C10_Witness ==
    /\ pc = "done"
    /\ Len(results) = 2
    /\ results[1].id = 2
    /\ results[2].id = 1
    /\ \E w \in summaryWrites : Len(writes[w].data) = 2
    /\ Cardinality(sendWrites) = 2

\* C11: within one run each send record is written to its own file: no two send
\* records, which are of distinct pairs of campaign id and recipient, are written to
\* the same file name, so that no send-record file is written twice.
C11_SendFilesNeverRewritten ==
    \A i, j \in sendWrites :
        (i # j /\ <<writes[i].data.HubSpot_Email_Campaign__c, writes[i].data.Email_Address__c>>
                     # <<writes[j].data.HubSpot_Email_Campaign__c,
                         writes[j].data.Email_Address__c>>)
            => writes[i].file # writes[j].file

\* C12: at every step of the aggregation pass over a campaign's events, each
\* recipient keeps its entry, its opens, clicks and replies are integers >= 0 that do
\* not decrease, and its unsubscribed is a boolean that stays true once it is true;
\* every send record written has the opens, clicks, replies and unsubscribed of its
\* recipient, hence totals >= 0 and a boolean Unsubscribed__c.
C12_CountersNeverDecrease ==
    [][/\ \A i \in DOMAIN recipientEventsMap :
             /\ i \in DOMAIN recipientEventsMap'
             /\ recipientEventsMap'[i].recipient = recipientEventsMap[i].recipient
             /\ recipientEventsMap'[i].data.opens >= recipientEventsMap[i].data.opens
             /\ recipientEventsMap'[i].data.clicks >= recipientEventsMap[i].data.clicks
             /\ recipientEventsMap'[i].data.replies >= recipientEventsMap[i].data.replies
             /\ recipientEventsMap[i].data.unsubscribed =>
                    recipientEventsMap'[i].data.unsubscribed
       /\ \A i \in DOMAIN recipientEventsMap' :
             /\ recipientEventsMap'[i].data.opens \in Nat
             /\ recipientEventsMap'[i].data.clicks \in Nat
             /\ recipientEventsMap'[i].data.replies \in Nat
             /\ recipientEventsMap'[i].data.unsubscribed \in BOOLEAN
       /\ \A i \in DOMAIN writes' :
             writes'[i].file.dir = salesforceSendsDirectory =>
                LET record == writes'[i].data
                    data == dataOf(recipientEventsMap', record.Email_Address__c)
                IN  /\ record.Total_Opened__c = data.opens
                    /\ record.Total_Clicks__c = data.clicks
                    /\ record.Total_Replies__c = data.replies
                    /\ record.Unsubscribed__c = data.unsubscribed
                    /\ record.Total_Opened__c \in Nat
                    /\ record.Total_Clicks__c \in Nat
                    /\ record.Total_Replies__c \in Nat
                    /\ record.Unsubscribed__c \in BOOLEAN]_vars

\* A send record written for bob with Unsubscribed__c true and one open, after a pass
\* in which bob's UNSUBSCRIBE came first and an OPEN and a SENT of bob followed it.
C12_Witness ==
    /\ Len(allEvents) = 3
    /\ allEvents[1].type = "UNSUBSCRIBE"
    /\ allEvents[2].type = "OPEN"
    /\ allEvents[3].type = "SENT"
    /\ \A k \in DOMAIN allEvents : allEvents[k].recipient = bob
    /\ \E i \in sendWrites :
          /\ writes[i].data.Email_Address__c = bob
          /\ writes[i].data.Unsubscribed__c
          /\ writes[i].data.Total_Opened__c = 1

\* The lookup i answered with a campaign object updated at the watermark or later,
\* after the two lookups before it answered with the campaign metadata and with content
\* metadata that names the campaign object.
allPresentAndCurrent(i) ==
    /\ requests[i].endpoint = "hubspotCampaign"
    /\ responses[i].ok
    /\ responses[i].data.updatedAt # Absent
    /\ ~strictlyBeforeWatermark(responses[i].data.updatedAt[1])
    /\ i > 2
    /\ requests[i - 1].endpoint = "content"
    /\ responses[i - 1].ok
    /\ responses[i - 1].data.campaign = requests[i].argument
    /\ requests[i - 2].endpoint = "campaign"
    /\ responses[i - 2].ok
    /\ responses[i - 2].data.contentId = requests[i - 1].argument

\* The analysis counts, for each recipient, the OPEN events of the campaign fetched
\* for that recipient, and has no other recipient.
holdsAggregation(analysis, campaign) ==
    /\ analysis.id = campaign
    /\ \A r \in pipelineRecipients :
          LET mine == eventsOfRecipient(campaign, r)
          IN  engagementOf(analysis.recipientEventsMap, r) =
                 IF mine = {} THEN <<>>
                 ELSE <<countOfType(mine, "OPEN"), 0, 0, FALSE>>
    /\ Range(recipientsOf(analysis.recipientEventsMap)) \subseteq pipelineRecipients

\* C13: a campaign whose campaign metadata, content metadata, campaign-object
\* reference and campaign object are all present, and whose campaign object was updated
\* at the watermark or later, gets its email_<id>.json, written once with the campaign
\* metadata, the content metadata and the aggregation of its events, and has exactly
\* one entry in the summary, which is that analysis.
C13_CurrentCampaignIncluded ==
    \A i \in lookupRequests :
        allPresentAndCurrent(i) =>
            LET c == campaignAt(i)
                files == {w \in campaignFileWrites : writes[w].file = campaignFileName(c)}
            IN  /\ Cardinality(files) = 1
                /\ \A w \in files :
                      /\ writes[w].data.campaign = responses[i - 2].data
                      /\ writes[w].data.content = responses[i - 1].data
                      /\ holdsAggregation(writes[w].data, c)
                      /\ \A v \in summaryWrites :
                            /\ Cardinality({k \in DOMAIN writes[v].data :
                                               writes[v].data[k].id = c}) = 1
                            /\ \E k \in DOMAIN writes[v].data :
                                  writes[v].data[k] = writes[w].data
                /\ pc \in {"writeAllEmailSendsToFiles", "done"} => summaryWrites # {}

\* A finished run in which a campaign updated exactly at the watermark, with an OPEN
\* event, is in the summary.
C13_Witness ==
    /\ pc = "done"
    /\ \E i \in lookupRequests :
          /\ allPresentAndCurrent(i)
          /\ responses[i].data.updatedAt = Some(watermarkDate)
          /\ \E k \in DOMAIN allEvents :
                /\ allEvents[k].emailCampaignId = campaignAt(i)
                /\ allEvents[k].type = "OPEN"
          /\ \E v \in summaryWrites :
                \E k \in DOMAIN writes[v].data : writes[v].data[k].id = campaignAt(i)

\* C14: the checks of one campaign stop at the first that excludes it: a content
\* lookup is issued only right after a campaign lookup that returned metadata with a
\* contentId, a campaign-object lookup only right after a content lookup that returned
\* metadata naming the campaign object, and processEmailEvents is not called for a
\* campaign that an answer excludes (after each call campaignIdentifier is the
\* campaign of the call).
C14_ChecksShortCircuit ==
    /\ \A i \in DOMAIN requests :
          requests[i].endpoint = "content" =>
              /\ i > 1
              /\ requests[i - 1].endpoint = "campaign"
              /\ responses[i - 1].ok
              /\ responses[i - 1].data.contentId # Absent
              /\ requests[i].argument = responses[i - 1].data.contentId
    /\ \A i \in DOMAIN requests :
          requests[i].endpoint = "hubspotCampaign" =>
              /\ i > 1
              /\ requests[i - 1].endpoint = "content"
              /\ responses[i - 1].ok
              /\ responses[i - 1].data.campaign # Absent
              /\ requests[i].argument = responses[i - 1].data.campaign
    /\ pc = "content" =>
          /\ Last(requests).endpoint = "campaign"
          /\ Last(responses).ok
          /\ Last(responses).data.contentId # Absent
    /\ pc = "hubspotCampaign" =>
          /\ Last(requests).endpoint = "content"
          /\ Last(responses).ok
          /\ Last(responses).data.campaign # Absent
    /\ \A i \in lookupRequests :
          excludedByAnswer(i) =>
              /\ campaignIdentifier # campaignAt(i)
              /\ \A k \in DOMAIN results : results[k].id # campaignAt(i)
    /\ campaignIdentifier # 0 =>
          /\ results # <<>>
          /\ Last(results).id = campaignIdentifier
          /\ Last(results).recipientEventsMap = recipientEventsMap

\* A finished run of two campaigns with events for both: the campaign lookup of the
\* first failed and the next request is the campaign lookup of the second, whose
\* content names no campaign object and whose content lookup is the last request;
\* nothing was aggregated.
C14_Witness ==
    /\ pc = "done"
    /\ Len(campaignIdentifiers) = 2
    /\ Len(requests) = Cardinality(pageRequests) + 3
    /\ LET first == Cardinality(pageRequests) + 1
       IN  /\ requests[first].endpoint = "campaign"
           /\ ~responses[first].ok
           /\ requests[first + 1].endpoint = "campaign"
           /\ responses[first + 1].ok
           /\ requests[first + 2].endpoint = "content"
           /\ responses[first + 2].ok
           /\ responses[first + 2].data.campaign = Absent
    /\ campaignIdentifier = 0
    /\ recipientEventsMap = <<>>

\* C15: in a run that does not raise, the summary file is written exactly once: not
\* before the campaign loop is over, when every campaign id of the events has been
\* looked up, every campaign file is written and no send record is; no campaign is
\* looked up and no campaign file written after it; and its entries are the analyses
\* of the campaign files of the run, one entry for each file, with the content of the
\* file.
C15_SummaryWrittenOnce ==
    /\ pc # "failed"
    /\ Cardinality(summaryWrites) <= 1
    /\ pc \in {"writeAllEmailSendsToFiles", "done"} <=> summaryWrites # {}
    /\ sendWrites # {} => summaryWrites # {}
    /\ \A w \in summaryWrites :
          /\ \A f \in campaignFileWrites : f < w
          /\ \A r \in sendWrites : w < r
          /\ campaignIndex = Len(campaignIdentifiers) + 1
          /\ Range(campaignIdentifiers) = eventCampaigns
          /\ {campaignLookups[i].argument[1] : i \in DOMAIN campaignLookups}
                = eventCampaigns
          /\ ~ENABLED (LookupCampaign \/ LookupContent \/ LookupHubSpotCampaign
                       \/ WriteSummary)
          /\ Len(writes[w].data) = Cardinality(campaignFileWrites)
          /\ \A f \in campaignFileWrites :
                Cardinality({k \in DOMAIN writes[w].data :
                                writes[w].data[k] = writes[f].data}) = 1
          /\ \A k \in DOMAIN writes[w].data :
                Cardinality({f \in campaignFileWrites :
                                /\ writes[f].file = campaignFileName(writes[w].data[k].id)
                                /\ writes[f].data = writes[w].data[k]}) = 1

\* A finished run that wrote two campaign files, then the summary with two entries,
\* then two send records.
C15_Witness ==
    /\ pc = "done"
    /\ Len(writes) = 5
    /\ campaignFileWrites = {1, 2}
    /\ summaryWrites = {3}
    /\ sendWrites = {4, 5}
    /\ Len(writes[3].data) = 2

\* The last answer said that there are no more pages, or was a failure.
lastPageAnswered ==
    /\ responses # <<>>
    /\ ~Last(responses).ok \/ ~Last(responses).hasMore

getAllEventsReturned == pc = "campaignIdentifiers"

\* What the claim says of getAllEvents apart from the cursor: allEvents is the
\* concatenation, in order, of the events of the pages received, each once; a page with
\* no events and hasMore true leaves the loop running; the first request carries no
\* cursor; and once the API has answered with hasMore false or with a failure,
\* getAllEvents returns.
pagesAccumulatedUntilLastPage ==
    /\ [](/\ allEvents = pagesConcatenated(responses)
          /\ (/\ responses # <<>>
              /\ Last(responses).ok
              /\ Last(responses).events = <<>>
              /\ Last(responses).hasMore) => (hasMoreEvents /\ pc = "getAllEvents")
          /\ requests # <<>> => requests[1] = request("events", Absent)
          /\ Len(requests) = Len(responses))
    /\ lastPageAnswered ~> getAllEventsReturned

\* C16 as stated: getAllEvents terminates whenever the API answers a page request with
\* hasMore false or with a failure, and returns the concatenation in order of the
\* events of every page received, each page once; a page with no events and hasMore
\* true does not stop it; and each request after the first carries the cursor returned
\* by the previous response.
C16_EveryCursorCarried ==
    /\ pagesAccumulatedUntilLastPage
    /\ [](\A i \in DOMAIN requests :
             i > 1 => requests[i].argument = responses[i - 1].offset)

\* C16 as amended: the same, with each request after the first carrying the cursor
\* returned by the previous response when that cursor is truthy, and no offset, like
\* the first request, when the previous response returned no cursor or the cursor 0.
C16_TruthyCursorCarried ==
    /\ pagesAccumulatedUntilLastPage
    /\ [](\A i \in DOMAIN requests :
             i > 1 =>
                requests[i].argument =
                    IF responses[i - 1].offset \in {Absent, Some(0)}
                    THEN Absent
                    ELSE responses[i - 1].offset)

\* getAllEvents has returned, in normal mode, after three requests: the first page
\* had events and gave the cursor 0, so that the second request carried no offset;
\* the second page had no events, said hasMore and gave the cursor 2, which the third
\* request carried; the third page had events and said that it was the last.
C16_Witness ==
    /\ ~testMode
    /\ getAllEventsReturned
    /\ Len(requests) = 3
    /\ Len(responses[1].events) > 0
    /\ responses[1].offset = Some(0)
    /\ requests[2].argument = Absent
    /\ responses[2].ok
    /\ responses[2].events = <<>>
    /\ responses[2].hasMore
    /\ responses[2].offset = Some(2)
    /\ requests[3].argument = Some(2)
    /\ responses[3].ok
    /\ ~responses[3].hasMore
    /\ Len(responses[3].events) > 0
    /\ Len(allEvents) = Len(responses[1].events) + Len(responses[3].events)

====
